---- MODULE Spec2Model ----
(***************************************************************************)
(* Model of deckset_inline/inliner.py: the directive parser, the directive *)
(* entity with its validation and content generation, and the line-by-line *)
(* stream transformer result_generator, and the check-then-rewrite order   *)
(* of main.                                                                *)
(*                                                                         *)
(* A line of text is a record that keeps what the regular expressions and  *)
(* the tag parser of the source look at:                                   *)
(*   comment  the line matches COMMENT_RE (it starts with a <!-- .. -->)   *)
(*   shape    "starttag": the comment text matches ^<(inline|python)       *)
(*            followed by a blank, and is one start tag;                   *)
(*            "endtag": the comment text is </tag>;                        *)
(*            "text": any other text; "fence": a ``` line;                 *)
(*            "unterminated": a start tag whose > is missing;              *)
(*            "twotags": a start tag followed by a second start tag        *)
(*   tag      the tag name                                                 *)
(*   attrs    the (name, value) pairs of a start tag                       *)
(*   body     the remaining text (for a fence line: the language)          *)
(***************************************************************************)
EXTENDS Integers, Sequences, FiniteSets, TLC

\* ------------------------------------------------------------------ bounds
MaxLen == 3        \* longest input document, in lines
MaxFileLen == 2    \* longest source file, in lines
MaxBound == 4      \* largest start/end value of the bounds specification
MaxN == 3          \* longest source file of the bounds specification
MaxWide == 2       \* longest input document of the wide specification

\* ------------------------------------------------------------------- lines
NoValue == "<None>"     \* value of an attribute written without a value

Text(b) == [comment |-> FALSE, shape |-> "text", tag |-> "", attrs |-> {}, body |-> b]

Fence(lang) == [comment |-> FALSE, shape |-> "fence", tag |-> "", attrs |-> {}, body |-> lang]

OpenTag(t, a) == [comment |-> TRUE, shape |-> "starttag", tag |-> t, attrs |-> a, body |-> ""]

CloseTag(t) == [comment |-> TRUE, shape |-> "endtag", tag |-> t, attrs |-> {}, body |-> ""]

NoLine == Text("")

\* ------------------------------------------------------------------ errors
NoError == [type |-> "none", msg |-> "", ref |-> 0, line |-> NoLine, lineno |-> 0]

InlineError(message, ref, line, lineno) ==
    [type |-> "InlineError", msg |-> message, ref |-> ref, line |-> line, lineno |-> lineno]

ValueError(line, lineno) ==
    [type |-> "ValueError", msg |-> "Indices for islice()", ref |-> 0, line |-> line, lineno |-> lineno]

\* dict(parser.attrs) when the parser found no complete start tag
TypeError(line, lineno) ==
    [type |-> "TypeError", msg |-> "'NoneType' object is not iterable", ref |-> 0,
     line |-> line, lineno |-> lineno]

\* the assert of handle_starttag on a second start tag
AssertionError(line, lineno) ==
    [type |-> "AssertionError", msg |-> "", ref |-> 0, line |-> line, lineno |-> lineno]

\* open() of a path that is no readable file
OSError(line, lineno) ==
    [type |-> "OSError", msg |-> "", ref |-> 0, line |-> line, lineno |-> lineno]

\* -------------------------------------------------------------- directives
None == [type |-> "None", lineno |-> 0, line |-> NoLine, source |-> "",
         verbatim |-> FALSE, lang |-> <<>>, start |-> <<>>, end |-> <<>>]

\* int(): the decimal strings the model uses; any other string raises.
IntTable == [s \in {"-1", "0", "1", "2", "3", "4", "5", "6"} |->
               CASE s = "-1" -> 0 - 1 [] s = "0" -> 0 [] s = "1" -> 1 [] s = "2" -> 2
                 [] s = "3" -> 3 [] s = "4" -> 4 [] s = "5" -> 5 [] s = "6" -> 6]

int(s) == IF s \in DOMAIN IntTable THEN [ok |-> TRUE, val |-> IntTable[s]]
                                   ELSE [ok |-> FALSE, val |-> 0]

HasAttr(attrs, n) == \E p \in attrs : p[1] = n

\* attrs[n] as an optional: <<>> when absent, <<value>> when present
GetAttr(attrs, n) == IF HasAttr(attrs, n) THEN <<(CHOOSE p \in attrs : p[1] = n)[2]>> ELSE <<>>

\* attrs.get(n): None (<<>>) when n is absent, and also when it is written
\* without a value, which the tag parser reports as None.
attrsGet(attrs, n) == IF GetAttr(attrs, n) = <<NoValue>> THEN <<>> ELSE GetAttr(attrs, n)

\* Paths that exist and cannot be opened for reading (a directory).
Unopenable == {"dir"}

\* ------------------------------------------------------------------- state
VARIABLES
    files,              \* the file system: path -> lines of the file
    input,              \* input_lines
    clean,              \* the clean flag
    lineno,             \* number of input lines read so far (enumerate from 1)
    current_directive,  \* the open directive, or None
    out,                \* the lines yielded so far
    origin,             \* history: where each yielded line comes from
    wasOpen,            \* history: was a directive open when line i was read
    pending,            \* lines contents() still has to yield
    pendingError,       \* the exception contents() raises after them, or NoError
    pc,                 \* "loop", "contents", "done" or "raised"; "closed" once
                        \* the consumer has closed the generator; "check" while
                        \* main still runs its validation pass
    error,              \* the exception that ended the scan, or NoError
    handles,            \* the source files the engine holds open, one per handle
    maxOpen             \* history: most handles ever open at once

vars == <<files, input, clean, lineno, current_directive, out, origin, wasOpen,
          pending, pendingError, pc, error, handles, maxOpen>>

\* --------------------------------------------------- InlineDirective entity
validate_sourceSkipped(d) == NoError

\* validate_source: the first check that fails raises.
validate_source(d) ==
    IF d.source = NoValue
      THEN InlineError("Source attribute must be present in directive", 0, d.line, d.lineno)
    ELSE IF d.source \notin DOMAIN files \cup Unopenable
      THEN InlineError("File not found", 0, d.line, d.lineno)
    ELSE IF d.source \in Unopenable
      THEN InlineError("Is a directory", 0, d.line, d.lineno)
    ELSE NoError

\* Coercion of an optional attribute string by int(); ok is FALSE on ValueError.
coerce(a) == IF a = <<>> THEN [ok |-> TRUE, val |-> <<>>]
             ELSE [ok |-> int(a[1]).ok, val |-> <<int(a[1]).val>>]

\* __post_init__: validation of a freshly built directive whose start and end
\* are still attribute strings. Returns the directive and the error raised.
post_init(d) ==
    IF d.type # "OPENING" THEN [directive |-> d, raised |-> NoError]
    ELSE IF validate_source(d) # NoError
      THEN [directive |-> None, raised |-> validate_source(d)]
    ELSE IF ~coerce(d.start).ok
      THEN [directive |-> None,
            raised |-> InlineError("Invalid value for start attribute", 0, d.line, d.lineno)]
    ELSE IF ~coerce(d.end).ok
      THEN [directive |-> None,
            raised |-> InlineError("Invalid value for end attribute", 0, d.line, d.lineno)]
    ELSE [directive |-> [d EXCEPT !.start = coerce(d.start).val, !.end = coerce(d.end).val],
          raised |-> NoError]

\* itertools.islice(fin, start, stop): walks the lines from the first one with
\* a 0-based counter, drops those before start and stops at stop (<<>>: none).
RECURSIVE isliceFrom(_, _, _, _)
isliceFrom(fin, i, start, stop) ==
    IF i >= Len(fin) \/ (stop # <<>> /\ i >= stop[1]) THEN <<>>
    ELSE (IF i >= start THEN <<fin[i + 1]>> ELSE <<>>) \o isliceFrom(fin, i + 1, start, stop)

islice(fin, start, stop) == isliceFrom(fin, 0, start, stop)

\* islice rejects a negative start or stop with ValueError.
isliceRejects(start, stop) == start < 0 \/ (stop # <<>> /\ stop[1] < 0)

contentsStartOneBased(d) == IF d.start # <<>> THEN d.start[1] ELSE 0

contentsStart(d) == IF d.start # <<>> THEN d.start[1] - 1 ELSE 0

\* The lines of the source file that contents() yields between the fences.
contentsBody(d, fs) == islice(fs[d.source], contentsStart(d), d.end)

contentsBareFence(d) ==
    LET fenceOpen == IF d.verbatim THEN <<Fence("")>> ELSE <<>>
        fenceClose == IF d.verbatim THEN <<Fence("")>> ELSE <<>>
    IN  IF d.source \notin DOMAIN files
          THEN [lines |-> fenceOpen, raised |-> OSError(d.line, d.lineno)]
        ELSE IF isliceRejects(contentsStart(d), d.end)
          THEN [lines |-> fenceOpen, raised |-> ValueError(d.line, d.lineno)]
          ELSE [lines |-> fenceOpen \o contentsBody(d, files) \o fenceClose,
                raised |-> NoError]

\* contents(): the lines it yields, in order, and the exception that ends it.
contents(d) ==
    LET fenceOpen == IF d.verbatim
                       THEN <<Fence(IF d.lang = <<>> THEN "" ELSE d.lang[1])>> ELSE <<>>
        fenceClose == IF d.verbatim THEN <<Fence("")>> ELSE <<>>
    IN  IF d.source \notin DOMAIN files
          THEN [lines |-> fenceOpen, raised |-> OSError(d.line, d.lineno)]
        ELSE IF isliceRejects(contentsStart(d), d.end)
          THEN [lines |-> fenceOpen, raised |-> ValueError(d.line, d.lineno)]
          ELSE [lines |-> fenceOpen \o contentsBody(d, files) \o fenceClose,
                raised |-> NoError]

\* ------------------------------------------------------------------ parsing
\* extract_line_comment: is the line one comment (the text is kept in the record)
extract_line_comment(line) == line.comment

\* The comment text is one of the two closing tags.
isClosingOnlyInline(line) == line.shape = "endtag" /\ line.tag = "inline"

isClosing(line) == line.shape = "endtag" /\ line.tag \in {"inline", "python"}

\* parse_directive: kind is "none" (not a directive), "directive" or "raised".
\* Two more shapes of a comment text that matches ^<(inline|python) and a
\* blank: "unterminated" (the tag has no closing >, the parser reports no tag)
\* and "twotags" (a second start tag follows the first).
parse_directive(line, n) ==
    IF ~extract_line_comment(line)
      THEN [kind |-> "none", directive |-> None, raised |-> NoError]
    ELSE IF line.shape = "unterminated" /\ line.tag \in {"inline", "python"}
      THEN [kind |-> "raised", directive |-> None, raised |-> TypeError(line, n)]
    ELSE IF line.shape = "twotags" /\ line.tag \in {"inline", "python"}
      THEN [kind |-> "raised", directive |-> None, raised |-> AssertionError(line, n)]
    ELSE IF line.shape = "starttag" /\ line.tag \in {"inline", "python"}
      THEN IF ~HasAttr(line.attrs, "src")
             THEN [kind |-> "raised", directive |-> None,
                   raised |-> InlineError("Attribute 'src' not set for directive", 0, line, n)]
             ELSE LET a == line.attrs
                      built == [type |-> "OPENING", lineno |-> n, line |-> line,
                                source |-> GetAttr(a, "src")[1],
                                verbatim |-> IF line.tag = "python" THEN TRUE
                                             ELSE HasAttr(a, "verbatim") \/ HasAttr(a, "lang"),
                                lang |-> IF line.tag = "python" THEN <<"python">>
                                         ELSE attrsGet(a, "lang"),
                                start |-> attrsGet(a, "start"),
                                end |-> attrsGet(a, "end")]
                      r == post_init(built)
                  IN  IF r.raised # NoError
                        THEN [kind |-> "raised", directive |-> None, raised |-> r.raised]
                        ELSE [kind |-> "directive", directive |-> r.directive, raised |-> NoError]
    ELSE IF isClosing(line)
      THEN [kind |-> "directive",
            directive |-> [None EXCEPT !.type = "CLOSING", !.lineno = n, !.line = line,
                                       !.verbatim = TRUE],
            raised |-> NoError]
    ELSE [kind |-> "none", directive |-> None, raised |-> NoError]

\* -------------------------------------------------------- result_generator
\* "Lines outside of directives remain untouched": what the loop yields for a
\* line before it looks for a directive in it.
untouchedAlways(cur, line) == <<line>>

untouchedTwice(cur, line) == IF cur = None THEN <<line, line>> ELSE <<>>

untouched(cur, line) == IF cur = None THEN <<line>> ELSE <<>>

\* The error of an opening directive found while `cur` is open.
nestedNamesNewLine(cur, line, n) ==
    InlineError("New directive found while previous is still open", n, line, n)

nested(cur, line, n) ==
    InlineError("New directive found while previous is still open", cur.lineno, line, n)

\* What follows the marker of a directive that has just been opened: its
\* contents, unless cleaning.
closedKeepsDirective(d) == d

\* current_directive after a closing directive was handled.
closed(d) == None

materializeWhenCleaning(d, cl) ==
    IF cl THEN contents(d) ELSE [lines |-> <<>>, raised |-> NoError]

materialize(d, cl) ==
    IF ~cl THEN contents(d) ELSE [lines |-> <<>>, raised |-> NoError]

\* One iteration of the for loop on `line`, the n-th line, with `cur` open:
\*   yielded  the input lines the iteration itself yields
\*   content  the lines of directive.contents() it yields after them
\*   cur      current_directive afterwards
\*   raised   the exception that ends the iteration, or NoError
Iteration(cur, line, n, cl) ==
    LET first == untouched(cur, line)
        p == parse_directive(line, n)
        d == p.directive
    IN  IF p.kind = "raised"
          THEN [yielded |-> first, content |-> <<>>, cur |-> cur, raised |-> p.raised]
        ELSE IF p.kind = "none"
          THEN [yielded |-> first, content |-> <<>>, cur |-> cur, raised |-> NoError]
        ELSE IF d.type = "OPENING"
          THEN IF cur # None
                 THEN [yielded |-> first, content |-> <<>>, cur |-> cur,
                       raised |-> nested(cur, line, n)]
               ELSE [yielded |-> first, content |-> materialize(d, cl).lines, cur |-> d,
                     raised |-> materialize(d, cl).raised]
        ELSE [yielded |-> first \o <<line>>, content |-> <<>>, cur |-> closed(d),
              raised |-> NoError]

EndOfLoopSilent(cur) == NoError

\* After the loop: an open directive is an error.
EndOfLoop(cur) ==
    IF cur # None
      THEN InlineError("Directive not closed at end of file", 0, cur.line, cur.lineno)
      ELSE NoError

\* The whole generator on a list of lines, consumed to the end: the lines it
\* yields and the exception that ends it (NoError when it returns).
RECURSIVE scan(_, _, _, _, _)
scan(lines, i, cur, acc, cl) ==
    IF i > Len(lines) THEN [out |-> acc, raised |-> EndOfLoop(cur)]
    ELSE LET r == Iteration(cur, lines[i], i, cl)
             acc2 == acc \o r.yielded \o r.content
         IN  IF r.raised # NoError THEN [out |-> acc2, raised |-> r.raised]
             ELSE scan(lines, i + 1, r.cur, acc2, cl)

result_generator(lines, cl) == scan(lines, 1, None, <<>>, cl)

\* ------------------------------------------------------------------ inputs
SeqsUpTo(S, n) == UNION {[1..k -> S] : k \in 0..n}

OpenInline == OpenTag("inline", {<<"src", "f">>})

OpenPython == OpenTag("python", {<<"src", "f">>, <<"start", "2">>})

OpenMissing == OpenTag("inline", {<<"src", "nofile">>})

OpenZero == OpenTag("inline", {<<"src", "f">>, <<"verbatim", NoValue>>, <<"start", "0">>})

Note == [comment |-> TRUE, shape |-> "text", tag |-> "", attrs |-> {}, body |-> "note"]

InputAlphabet == {Text("head"), Note, OpenInline, OpenPython, OpenMissing, OpenZero,
                  CloseTag("inline"), CloseTag("python")}

SourceAlphabet == {Text("x"), CloseTag("inline"), OpenInline}

\* ------------------------------------------------------------ the scan
Init ==
    /\ files \in [{"f"} -> SeqsUpTo(SourceAlphabet, MaxFileLen)]
    /\ input \in SeqsUpTo(InputAlphabet, MaxLen)
    /\ clean \in BOOLEAN
    /\ lineno = 0
    /\ current_directive = None
    /\ out = <<>>
    /\ origin = <<>>
    /\ wasOpen = <<>>
    /\ pending = <<>>
    /\ pendingError = NoError
    /\ pc = "loop"
    /\ error = NoError
    /\ handles = <<>>
    /\ maxOpen = 0

\* Leaving a `with ... open(...)` block, normally or by an exception, closes
\* the handles it holds.
withExitLeaks(held) == held

withExit(held) == <<>>

\* The handle validate_source opens on the file of an opening directive, when
\* parse_directive gets as far as opening it.
validateOpens(line) ==
    IF /\ extract_line_comment(line) /\ line.shape = "starttag"
       /\ line.tag \in {"inline", "python"} /\ HasAttr(line.attrs, "src")
       /\ GetAttr(line.attrs, "src")[1] \in DOMAIN files
      THEN <<GetAttr(line.attrs, "src")[1]>> ELSE <<>>

\* Is the k-th line that contents() yields for d one that it yields inside
\* its with block (a line of the source file, not a fence)?
yieldsInsideWith(d, k) ==
    /\ contents(d).raised = NoError
    /\ IF d.verbatim THEN 1 < k /\ k < Len(contents(d).lines) ELSE TRUE

Larger(a, b) == IF a >= b THEN a ELSE b

afterYieldScanned(cur, line) ==
    IF parse_directive(line, lineno).kind # "directive" THEN cur
    ELSE IF parse_directive(line, lineno).directive.type = "CLOSING" THEN None
    ELSE parse_directive(line, lineno).directive

\* current_directive once a line of contents() has been yielded: yield from
\* hands the line to the consumer and the loop body does not look at it.
afterYield(cur, line) == cur

\* The for loop takes the next input line and runs one iteration on it, up to
\* the first line of the directive's contents.
ReadLine ==
    /\ pc = "loop"
    /\ lineno < Len(input)
    /\ LET n == lineno + 1
           r == Iteration(current_directive, input[n], n, clean)
       IN  /\ lineno' = n
           /\ wasOpen' = Append(wasOpen, current_directive # None)
           /\ out' = out \o r.yielded
           /\ origin' = origin \o [k \in 1..Len(r.yielded) |-> [from |-> "input", at |-> n]]
           /\ current_directive' = r.cur
           /\ pending' = r.content
           /\ IF r.content # <<>>
                THEN pc' = "contents" /\ pendingError' = r.raised /\ error' = error
              ELSE IF r.raised # NoError
                THEN pc' = "raised" /\ pendingError' = NoError /\ error' = r.raised
              ELSE pc' = "loop" /\ pendingError' = NoError /\ error' = error
           /\ handles' = withExit(withExit(handles) \o validateOpens(input[n]))
           /\ maxOpen' = Larger(maxOpen, Len(withExit(handles) \o validateOpens(input[n])))
    /\ UNCHANGED <<files, input, clean>>

\* yield from directive.contents(): one more line; after the last one the
\* generator goes on with the loop, or raises what contents() raises.
YieldContent ==
    /\ pc = "contents"
    /\ out' = Append(out, Head(pending))
    /\ origin' = Append(origin, [from |-> "source", at |-> lineno])
    /\ pending' = Tail(pending)
    /\ IF Tail(pending) # <<>>
         THEN pc' = "contents" /\ error' = error /\ pendingError' = pendingError
       ELSE IF pendingError # NoError
         THEN pc' = "raised" /\ error' = pendingError /\ pendingError' = NoError
       ELSE pc' = "loop" /\ error' = error /\ pendingError' = NoError
    /\ LET k == Len(contents(current_directive).lines) - Len(pending) + 1
           opened == IF handles = <<>> THEN <<current_directive.source>> ELSE handles
       IN  /\ handles' = IF yieldsInsideWith(current_directive, k)
                           THEN opened ELSE withExit(handles)
           /\ maxOpen' = Larger(maxOpen, Len(handles'))
    /\ current_directive' = afterYield(current_directive, Head(pending))
    /\ UNCHANGED <<files, input, clean, lineno, wasOpen>>

\* The input is exhausted.
EndOfInput ==
    /\ pc = "loop"
    /\ lineno = Len(input)
    /\ IF EndOfLoop(current_directive) # NoError
         THEN pc' = "raised" /\ error' = EndOfLoop(current_directive)
         ELSE pc' = "done" /\ error' = error
    /\ handles' = withExit(handles)
    /\ UNCHANGED <<files, input, clean, lineno, current_directive, out, origin, wasOpen,
                   pending, pendingError, maxOpen>>

Next == ReadLine \/ YieldContent \/ EndOfInput

Spec == Init /\ [][Next]_vars

\* The consumer stops pulling lines and closes the generator: GeneratorExit is
\* raised at the yield where it is suspended, and every with block is left.
Abandon ==
    /\ pc \in {"loop", "contents"}
    /\ pc' = "closed"
    /\ handles' = withExit(handles)
    /\ UNCHANGED <<files, input, clean, lineno, current_directive, out, origin, wasOpen,
                   pending, pendingError, error, maxOpen>>

NextAbandon == Next \/ Abandon

\* A scan whose consumer may give up at any yield.
TypeOK ==
    /\ pc \in {"loop", "contents", "done", "raised", "closed", "check"}
    /\ lineno \in 0..Len(input)
    /\ Len(out) = Len(origin)
    /\ Len(wasOpen) = lineno
    /\ (pc = "raised") = (error # NoError)

\* ------------------------------------------------- the bounds specification
\* contents() on one directive: a source file of N numbered lines and an
\* opening directive with optional start and end, closed on the next line.
LineText == <<"line 1 of included file", "line 2 of included file",
              "line 3 of included file", "line 4 of included file",
              "line 5 of included file", "line 6 of included file">>

NumStr == <<"1", "2", "3", "4", "5", "6">>

NumberedFile(N) == [k \in 1..N |-> Text(LineText[k])]

BoundAttrs(name) == {{}} \cup {{<<name, NumStr[k]>>} : k \in 1..MaxBound}

InitBounds ==
    /\ \E N \in 0..MaxN : files = [p \in {"f"} |-> NumberedFile(N)]
    /\ \E s \in BoundAttrs("start"), e \in BoundAttrs("end"),
          v \in {{}, {<<"verbatim", NoValue>>}} :
          input = <<OpenTag("inline", {<<"src", "f">>} \cup s \cup e \cup v),
                    CloseTag("inline")>>
    /\ clean = FALSE
    /\ lineno = 0
    /\ current_directive = None
    /\ out = <<>>
    /\ origin = <<>>
    /\ wasOpen = <<>>
    /\ pending = <<>>
    /\ pendingError = NoError
    /\ pc = "loop"
    /\ error = NoError
    /\ handles = <<>>
    /\ maxOpen = 0

SpecBounds == InitBounds /\ [][Next]_vars

\* --------------------------------------------------- the wide specification
\* Short documents over every kind of directive line, on a file of two
\* numbered lines.
OpenVerbatim == OpenTag("inline", {<<"src", "f">>, <<"verbatim", NoValue>>})

OpenLang == OpenTag("inline", {<<"src", "f">>, <<"lang", "java">>})

OpenLangBare == OpenTag("inline", {<<"src", "f">>, <<"lang", NoValue>>})

OpenPythonLang == OpenTag("python", {<<"src", "f">>, <<"lang", "java">>})

OpenDir == OpenTag("inline", {<<"src", "dir">>})

OpenNoSrc == OpenTag("inline", {<<"lang", "java">>})

OpenSrcBare == OpenTag("inline", {<<"src", NoValue>>})

OpenBadStart == OpenTag("inline", {<<"src", "f">>, <<"start", "x">>})

OpenBadEnd == OpenTag("inline", {<<"src", "f">>, <<"end", "x">>})

OpenNegEnd == OpenTag("inline", {<<"src", "f">>, <<"end", "-1">>})

Unterminated == [OpenInline EXCEPT !.shape = "unterminated"]

TwoTags == [OpenInline EXCEPT !.shape = "twotags"]

WideAlphabet == {Text("head"), OpenInline, OpenPython, OpenVerbatim, OpenLang, OpenLangBare,
                 OpenPythonLang, OpenMissing, OpenDir, OpenNoSrc, OpenSrcBare, OpenBadStart,
                 OpenBadEnd, OpenZero, OpenNegEnd, Unterminated, TwoTags,
                 CloseTag("inline"), CloseTag("python")}

InitWide ==
    /\ files = [p \in {"f"} |-> NumberedFile(2)]
    /\ input \in SeqsUpTo(WideAlphabet, MaxWide)
    /\ clean \in BOOLEAN
    /\ lineno = 0
    /\ current_directive = None
    /\ out = <<>>
    /\ origin = <<>>
    /\ wasOpen = <<>>
    /\ pending = <<>>
    /\ pendingError = NoError
    /\ pc = "loop"
    /\ error = NoError
    /\ handles = <<>>
    /\ maxOpen = 0

SpecWide == InitWide /\ [][Next]_vars

SpecAbandon == InitWide /\ [][NextAbandon]_vars

\* ------------------------------------------------------------------- main()
\* main() on a named file: check() consumes a whole scan of the file with the
\* same clean flag, and only when it returned does fileinput start the
\* rewriting scan.  An exception of check() leaves main().
checkOtherMode(lines, cl) == result_generator(lines, ~cl).raised

check(lines, cl) == result_generator(lines, cl).raised

InitMain ==
    /\ files = [p \in {"f"} |-> NumberedFile(2)]
    /\ input \in SeqsUpTo(WideAlphabet, MaxWide)
    /\ clean \in BOOLEAN
    /\ lineno = 0
    /\ current_directive = None
    /\ out = <<>>
    /\ origin = <<>>
    /\ wasOpen = <<>>
    /\ pending = <<>>
    /\ pendingError = NoError
    /\ pc = "check"
    /\ error = NoError
    /\ handles = <<>>
    /\ maxOpen = 0

Check ==
    /\ pc = "check"
    /\ IF check(input, clean) = NoError
         THEN pc' = "loop" /\ error' = error
         ELSE pc' = "raised" /\ error' = check(input, clean)
    /\ UNCHANGED <<files, input, clean, lineno, current_directive, out, origin, wasOpen,
                   pending, pendingError, handles, maxOpen>>

NextMain == Check \/ Next

SpecMain == InitMain /\ [][NextMain]_vars

\* The named file as it is on disk with --in-place: fileinput replaces it by
\* the redirected output once the rewriting scan has read its first line.
onDisk == IF lineno = 0 THEN input ELSE out

\* ------------------------------------------------------------------ history
\* The positions of the output that hold input line i, and those that hold
\* the contents of the directive of input line i.
Positions(i) == {p \in 1..Len(out) : origin[p] = [from |-> "input", at |-> i]}

ContentOf(i) == SelectSeq([p \in 1..Len(out) |-> <<out[p], origin[p]>>],
                          LAMBDA x : x[2] = [from |-> "source", at |-> i])

Parsed(i) == parse_directive(input[i], i)

IsOpeningAt(i) == Parsed(i).kind = "directive" /\ Parsed(i).directive.type = "OPENING"

IsClosingAt(i) == Parsed(i).kind = "directive" /\ Parsed(i).directive.type = "CLOSING"

\* The input lines read so far that opened a directive.
Openers == {i \in 1..lineno : ~wasOpen[i] /\ IsOpeningAt(i)}

Min(S) == CHOOSE x \in S : \A y \in S : x <= y

Max(S) == CHOOSE x \in S : \A y \in S : x >= y

IsPrefix(s, t) == Len(s) <= Len(t) /\ \A k \in 1..Len(s) : s[k] = t[k]

\* ------------------------------------------------------------------- claims
\* For opener i: its marker is in the output once, unchanged, at position p;
\* the lines after p are the directive's contents, in order; and once the
\* next closing marker j has been read, that marker follows them at once,
\* unchanged, with nothing else between the two markers.
MarkerThenContent(i) ==
    LET want == contents(Parsed(i).directive).lines
        closers == {j \in (i + 1)..lineno : IsClosingAt(j)}
    IN  /\ Cardinality(Positions(i)) = 1
        /\ LET p == CHOOSE x \in Positions(i) : TRUE
           IN  /\ out[p] = input[i]
               /\ IF closers = {}
                    THEN /\ IsPrefix(SubSeq(out, p + 1, Len(out)), want)
                         /\ \A q \in (p + 1)..Len(out) :
                               origin[q] = [from |-> "source", at |-> i]
                         /\ pc \in {"loop", "done"} \/ lineno > i
                               => Len(out) = p + Len(want)
                    ELSE LET j == Min(closers)
                         IN  /\ Positions(j) = {p + Len(want) + 1}
                             /\ out[p + Len(want) + 1] = input[j]
                             /\ SubSeq(out, p + 1, p + Len(want)) = want

\* C1: in transform mode every opening directive read while none is open is
\* emitted unchanged, followed at once by its freshly materialized contents
\* in order, and then by nothing until the next closing marker, which is
\* emitted unchanged.
C1_TransformEmitsContent == ~clean => \A i \in Openers : MarkerThenContent(i)

\* A finished transform scan with an opener whose stale line was replaced by
\* at least two lines of content before its closing marker.
C1_Witness ==
    /\ ~clean /\ pc = "done"
    /\ \E i \in Openers :
          /\ i + 2 <= lineno
          /\ wasOpen[i + 1] /\ Parsed(i + 1).kind = "none"
          /\ IsClosingAt(i + 2)
          /\ Len(contentsBody(Parsed(i).directive, files)) >= 2

\* C2: in both modes, a line read while a directive is open that is neither
\* an opening nor a closing directive is never emitted.
C2_StaleNeverEmitted ==
    \A i \in 1..lineno :
        wasOpen[i] /\ Parsed(i).kind # "directive" => Positions(i) = {}

\* A finished scan that read a stale line between two markers.
C2_Witness ==
    /\ pc = "done"
    /\ \E i \in 2..lineno :
          wasOpen[i] /\ Parsed(i).kind = "none" /\ (i - 1) \in Openers

\* The input with the lines strictly between each opening marker and its
\* closing marker removed.
RECURSIVE stripBetween(_, _, _)
stripBetween(lines, i, open) ==
    IF i > Len(lines) THEN <<>>
    ELSE LET p == parse_directive(lines[i], i)
             opening == p.kind = "directive" /\ p.directive.type = "OPENING"
             closing == p.kind = "directive" /\ p.directive.type = "CLOSING"
         IN  IF ~open THEN <<lines[i]>> \o stripBetween(lines, i + 1, opening)
             ELSE IF closing THEN <<lines[i]>> \o stripBetween(lines, i + 1, FALSE)
             ELSE stripBetween(lines, i + 1, TRUE)

\* C3: in clean mode, on every input on which the scan completes, the output
\* is the input without the lines strictly between each opening marker and its
\* closing marker; each opening marker is directly followed by its closing
\* marker, and nothing comes from a source file.
C3_CleanStripsBetween ==
    clean /\ pc = "done" =>
        /\ out = stripBetween(input, 1, FALSE)
        /\ \A p \in 1..Len(out) : origin[p].from = "input"
        /\ \A i \in Openers :
              \E p \in 1..(Len(out) - 1) :
                  /\ Positions(i) = {p}
                  /\ origin[p + 1].at > i /\ IsClosingAt(origin[p + 1].at)

\* C4: when transform mode completes on an input, transform mode on its output
\* completes too and yields the same lines.
C4_RoundTripIdempotent ==
    ~clean /\ pc = "done" =>
        result_generator(out, FALSE) = [out |-> out, raised |-> NoError]

\* C5: when the clean scan completes on an input, transform mode on its output
\* yields the same lines as transform mode on the input itself.
C5_CleanThenTransform ==
    clean /\ pc = "done" /\ result_generator(input, FALSE).raised = NoError =>
        result_generator(out, FALSE) = result_generator(input, FALSE)

\* C6: a closing marker read while no directive is open is copied to the
\* output unchanged exactly once, no directive is open afterwards, and it
\* raises no error.
C6_StrayClosingOnce ==
    \A i \in 1..lineno :
        ~wasOpen[i] /\ IsClosingAt(i) =>
            /\ Cardinality(Positions(i)) = 1
            /\ \A p \in Positions(i) : out[p] = input[i]
            /\ lineno = i => current_directive = None /\ error = NoError

\* The input lines read while no directive was open that are no directive.
Plain == {i \in 1..lineno : ~wasOpen[i] /\ Parsed(i).kind = "none"}

\* C7: in both modes, every line that is no directive marker and is read while
\* no directive is open is in the output exactly once, unchanged, and these
\* lines keep their input order.
C7_PlainLinesPassThrough ==
    /\ \A i \in Plain :
          /\ Cardinality(Positions(i)) = 1
          /\ \A p \in Positions(i) : out[p] = input[i]
    /\ \A i, j \in Plain :
          i < j => \A p \in Positions(i), q \in Positions(j) : p < q

\* A finished scan that passed two different lines through, one of them a
\* comment that is no directive.
C7_Witness ==
    /\ pc = "done"
    /\ \E i, j \in Plain : i < j /\ input[i] # input[j] /\ input[j].comment

\* C8: when the input ends while directive d is open, the scan raises the
\* directive error "Directive not closed at end of file" with the line text
\* and the line number of d's marker.
C8_UnclosedAtEnd ==
    [][pc = "loop" /\ lineno = Len(input) /\ Openers # {}
         /\ (\A j \in (Max(Openers) + 1)..lineno : ~IsClosingAt(j))
       => /\ pc' = "raised"
          /\ error' = InlineError("Directive not closed at end of file", 0,
                                  input[Max(Openers)], Max(Openers))]_vars

\* The scan ended on a directive opened before the last input line.
C8_Witness ==
    /\ pc = "raised"
    /\ error.msg = "Directive not closed at end of file"
    /\ error.lineno < Len(input)
    /\ error.lineno > 1

\* C9: an opening directive read while directive d is open raises a directive
\* error with the new line and its number, naming d's line number; the new
\* marker is not emitted, nothing is materialized, and no further line is
\* processed.
C9_NestingForbidden ==
    [][/\ pc # "raised"
       /\ pc = "loop" /\ lineno < Len(input) /\ Openers # {}
            /\ (\A j \in (Max(Openers) + 1)..lineno : ~IsClosingAt(j))
            /\ parse_directive(input[lineno + 1], lineno + 1).kind = "directive"
            /\ parse_directive(input[lineno + 1], lineno + 1).directive.type = "OPENING"
          => /\ pc' = "raised"
             /\ error' = InlineError("New directive found while previous is still open",
                                     Max(Openers), input[lineno + 1], lineno + 1)
             /\ out' = out
             /\ pending' = <<>>]_vars

\* The scan ended on an opening directive read while another one was open,
\* with input left unread.
C9_Witness ==
    /\ pc = "raised"
    /\ error.msg = "New directive found while previous is still open"
    /\ error.ref < error.lineno
    /\ lineno < Len(input)

\* The source lines S..min(E, N) of a file.
Slice(file, S, E) ==
    LET last == IF E < Len(file) THEN E ELSE Len(file)
    IN  IF S > last THEN <<>> ELSE [k \in 1..(last - S + 1) |-> file[S + k - 1]]

\* The lines that contents() yielded for opener i, without the fences.
BodyOf(i) ==
    LET c == [k \in 1..Len(ContentOf(i)) |-> ContentOf(i)[k][1]]
    IN  IF Parsed(i).directive.verbatim THEN SubSeq(c, 2, Len(c) - 1) ELSE c

\* C10: for a source file of N lines and an opening directive with positive
\* start S (1 when absent) and end E (N when absent), the materialized body is
\* the source lines S..min(E, N) in order, and it is empty, with no error,
\* when S > N or S > E.
C10_BoundsCorrect ==
    \A i \in Openers :
        LET d == Parsed(i).directive
            file == files[d.source]
            S == IF d.start = <<>> THEN 1 ELSE d.start[1]
            E == IF d.end = <<>> THEN Len(file) ELSE d.end[1]
        IN  ~clean /\ S >= 1 /\ E >= 1 /\ (lineno > i \/ pc \in {"done", "raised"}) =>
                /\ BodyOf(i) = Slice(file, S, E)
                /\ S > Len(file) \/ S > E =>
                      /\ BodyOf(i) = <<>>
                      /\ \/ error = NoError
                         \/ error.lineno # i
                         \/ error.msg = "Directive not closed at end of file"

\* Finished: start 2 and end 4 on a file of 3 lines gave lines 2 and 3.
C10_Witness ==
    /\ pc = "done" /\ 1 \in Openers
    /\ Parsed(1).directive.start = <<2>> /\ Parsed(1).directive.end = <<4>>
    /\ Len(files["f"]) = 3
    /\ BodyOf(1) = <<files["f"][2], files["f"][3]>>

\* The lines that contents() yielded for opener i.
ContentLines(i) == [k \in 1..Len(ContentOf(i)) |-> ContentOf(i)[k][1]]

\* contents() of opener i has run to its end.
ContentDone(i) ==
    \/ lineno > i
    \/ lineno = i /\ (pc \in {"loop", "done"} \/ (pc = "raised" /\ error.type = "InlineError"))

Range(f) == {f[k] : k \in 1..Len(f)}

\* C11: the materialized content of an opening directive starts with one
\* fence-open line and ends with one fence-close line exactly when the tag is
\* python or the inline tag has a verbatim flag or a lang attribute; the
\* fence-open line carries python for the shorthand, the lang value otherwise,
\* nothing for a bare verbatim; a directive that is not verbatim emits no
\* fence line.
C11_FenceWrapping ==
    \A i \in Openers :
        LET line == input[i]
            V == line.tag = "python" \/ HasAttr(line.attrs, "verbatim")
                                     \/ HasAttr(line.attrs, "lang")
            L == IF line.tag = "python" THEN "python"
                 ELSE IF HasAttr(line.attrs, "lang") /\ GetAttr(line.attrs, "lang") # <<NoValue>>
                   THEN GetAttr(line.attrs, "lang")[1]
                 ELSE ""
            c == ContentLines(i)
            file == files[Parsed(i).directive.source]
            fences == {k \in 1..Len(c) : c[k].shape = "fence"}
        IN  ~clean /\ ContentDone(i) /\ (\A x \in Range(file) : x.shape # "fence") =>
                /\ V => /\ Len(c) >= 2
                        /\ c[1] = Fence(L) /\ c[Len(c)] = Fence("")
                        /\ fences = {1, Len(c)}
                /\ ~V => fences = {}
                /\ \A k \in 1..Len(c) : k \notin fences => c[k] \in Range(file)

\* A finished transform scan of a lang="java" directive: ```java, the two
\* lines of the file, ```.
C11_Witness ==
    /\ ~clean /\ pc = "done" /\ 1 \in Openers
    /\ input[1] = OpenLang
    /\ ContentLines(1) = <<Fence("java")>> \o files["f"] \o <<Fence("")>>
    /\ Len(files["f"]) = 2

\* C12: every abnormal termination of a scan is an InlineError that carries
\* the text and the 1-based number of an input line; no other exception
\* escapes.
C12_SingleErrorKind ==
    pc = "raised" =>
        /\ error.type = "InlineError"
        /\ error.lineno \in 1..Len(input)
        /\ error.line = input[error.lineno]

\* The other mode's scan of the same input.
OtherMode == result_generator(input, ~clean).raised

\* C13: a scan in one mode raises exactly when the scan of the same input in
\* the other mode raises, and then at the same input line with the same
\* message.
C13_ModesAgreeOnErrors ==
    pc \in {"done", "raised"} =>
        /\ (error = NoError) <=> (OtherMode = NoError)
        /\ error.lineno = OtherMode.lineno
        /\ error.msg = OtherMode.msg

\* C14: on a named file the validation scan ends before the rewriting scan
\* reads or writes a line; when it raises, the rewriting scan never starts and
\* the file stays as it was; when it returns, the rewriting scan of the same
\* file raises nothing.
C14_CheckBeforeRewrite ==
    /\ [](pc = "check" => lineno = 0 /\ out = <<>> /\ onDisk = input)
    /\ [](pc = "raised" => lineno = 0 /\ out = <<>> /\ onDisk = input /\ error # NoError)
    /\ [][pc = "check" => lineno' = 0 /\ out' = <<>> /\ pc' \in {"loop", "raised"}]_vars
    /\ [][pc = "raised" => pc' = "raised" /\ onDisk' = input]_vars

\* The validation scan failed only at the end of a two-line file (a directive
\* never closed) and nothing of the file was rewritten.
C14_Witness ==
    /\ pc = "raised" /\ Len(input) = 2
    /\ error.msg = "Directive not closed at end of file" /\ error.lineno = 1
    /\ ~clean /\ input[1] = OpenInline
    /\ lineno = 0 /\ onDisk = input

\* An opening marker line whose src names no file that can be opened.
BadSrc(i) ==
    /\ input[i].comment /\ input[i].shape = "starttag"
    /\ input[i].tag \in {"inline", "python"}
    /\ \E a \in input[i].attrs : a[1] = "src" /\ a[2] # NoValue /\ a[2] \notin DOMAIN files

OpeningMarker(line) == line.comment /\ line.shape = "starttag" /\ line.tag \in {"inline", "python"}

ClosingMarker(line) == line.comment /\ line.shape = "endtag" /\ line.tag \in {"inline", "python"}

\* C16: in every reachable state the slot of the open directive is empty or
\* holds one OPENING directive, built from an input line already read; it
\* never holds a CLOSING directive; it becomes non-empty only on an opening
\* marker read while it is empty, and empty only on a closing marker.
C16_SingleSlot ==
    /\ [](\/ current_directive = None
          \/ /\ current_directive.type = "OPENING"
             /\ current_directive.lineno \in 1..lineno
             /\ OpeningMarker(input[current_directive.lineno])
             /\ current_directive.line = input[current_directive.lineno])
    /\ [][/\ current_directive = None /\ current_directive' # None =>
                /\ lineno' = lineno + 1
                /\ OpeningMarker(input[lineno'])
                /\ current_directive'.lineno = lineno'
          /\ current_directive # None /\ current_directive' = None =>
                /\ lineno' = lineno + 1
                /\ ClosingMarker(input[lineno'])
          /\ current_directive # None /\ current_directive' # None =>
                current_directive' = current_directive]_vars

\* A directive opened at line 1 was closed at line 2 and another one is open
\* since line 3.
C16_Witness ==
    /\ lineno = 3 /\ current_directive # None /\ current_directive.lineno = 3
    /\ OpeningMarker(input[1]) /\ ClosingMarker(input[2])
    /\ wasOpen = <<FALSE, TRUE, FALSE>>

\* C17: at most one source-file handle is open at any time, and none is open
\* once the loop has read the next input line, when the scan has completed,
\* when it has raised, or after its consumer closed it in the middle of a
\* directive's content.
C17_HandleScoping ==
    /\ [](Len(handles) <= 1 /\ maxOpen <= 1)
    /\ [](pc \in {"done", "raised", "closed"} => handles = <<>>)
    /\ [][lineno' = lineno + 1 => handles' = <<>>]_vars
    /\ [][handles # <<>> /\ handles' # <<>> => handles' = handles]_vars

\* The consumer closed the scan after the first of two source lines: the
\* handle had been open, content was still to come, and no handle is open.
C17_Witness ==
    /\ pc = "closed" /\ handles = <<>> /\ maxOpen = 1
    /\ pending # <<>> /\ pending[1].shape # "fence"
    /\ lineno = 1 /\ Len(ContentOf(1)) = 1

\* C18: the lines materialized from a source file are not scanned: a step
\* that yields one, marker or not, changes neither the open directive nor the
\* input position and raises no nesting error; the directive stays open until
\* a closing marker is read from the input.
C18_ContentNotScanned ==
    /\ [][pc = "contents" =>
            /\ current_directive' = current_directive /\ current_directive # None
            /\ lineno' = lineno
            /\ out' = Append(out, Head(pending))
            /\ pc' = "raised" => error'.type # "InlineError"]_vars
    /\ [][current_directive # None /\ current_directive' # current_directive =>
            /\ pc = "loop" /\ lineno' = lineno + 1
            /\ ClosingMarker(input[lineno'])]_vars
    /\ [](pc = "raised" /\ error.ref > 0 =>
            OpeningMarker(input[error.lineno]) /\ wasOpen[error.lineno])

\* The source file holds a closing and an opening marker; both were
\* materialized for the directive of line 1, which is still open.
C18_Witness ==
    /\ ~clean /\ lineno = 1 /\ pc = "loop"
    /\ files["f"] = <<CloseTag("inline"), OpenInline>>
    /\ ContentLines(1) = files["f"]
    /\ current_directive # None /\ current_directive.lineno = 1

\* The document with the tag name of every closing marker exchanged.
SwapClosing(lines) ==
    [k \in 1..Len(lines) |->
        IF ClosingMarker(lines[k])
          THEN CloseTag(IF lines[k].tag = "inline" THEN "python" ELSE "inline")
          ELSE lines[k]]

\* The lines with every closing marker written as </inline>.
OneClosingName(lines) ==
    [k \in 1..Len(lines) |-> IF ClosingMarker(lines[k]) THEN CloseTag("inline") ELSE lines[k]]

\* C19: a closing marker read while a directive is open closes it whatever
\* the two tag names are: no error at that line, the slot is empty after it,
\* the marker is emitted once, and the scan of the document with the other
\* closing tag name yields the same lines (up to that name) and ends the same.
C19_ClosingIgnoresTagName ==
    /\ \A j \in 1..lineno :
          ClosingMarker(input[j]) /\ wasOpen[j] =>
              /\ ~(pc = "raised" /\ error.lineno = j)
              /\ lineno = j => current_directive = None
              /\ Cardinality(Positions(j)) = 1
              /\ \A p \in Positions(j) : out[p] = input[j]
    /\ LET a == result_generator(input, clean)
           b == result_generator(SwapClosing(input), clean)
       IN  /\ a.raised = b.raised
           /\ OneClosingName(b.out) = OneClosingName(a.out)
           /\ Len(b.out) = Len(a.out)

\* A <python> directive closed by </inline>, followed by a plain line.
C19_Witness ==
    /\ pc = "done" /\ ~clean /\ lineno = 3
    /\ input = <<OpenPython, CloseTag("inline"), Text("head")>>
    /\ wasOpen = <<FALSE, TRUE, FALSE>>
    /\ out[Len(out) - 1] = CloseTag("inline")
    /\ current_directive = None

====
